---- MODULE Spec2Model ----
(***************************************************************************)
(* The frame-resource ring of the Vulkan renderer: FrameManager and        *)
(* FrameData (src/vulkan_render/frame_manager.rs) and the shader loading   *)
(* of PipelineInfo (src/vulkan_render/graphics_pipeline.rs).               *)
(*                                                                         *)
(* FrameManager::new is modelled step by step (every `expect` is a step    *)
(* that may panic), the runtime operations are one action each, and the    *)
(* device is a second process that completes submitted work.               *)
(* Index convention: current_frame is 0-based as in the code; the slot     *)
(* `self.frames[i]` is frames[i + 1] here.                                 *)
(***************************************************************************)
EXTENDS Integers, Sequences, FiniteSets, TLC

\* ---------------------------------------------------------------- bounds
MaxFrames == 2        \* max_frames and MAX_FRAMES_IN_FLIGHT range over 0/1..MaxFrames
MaxMesh == 2          \* mesh_count ranges over 0..MaxMesh
MaxRecord == 2        \* size_of::<ModelDynamicUbo>() ranges over 1..MaxRecord
MaxAlign == 2         \* minUniformBufferOffsetAlignment ranges over 1..MaxAlign
MaxShaderBytes == 5   \* a shader file on disk holds 0..MaxShaderBytes bytes
MaxPending == 2       \* cap on the outstanding submissions counted per slot

VARIABLES
    phase,                \* position of the program: a step of FrameManager::new, "live" or "aborted"
    abort_cause,          \* the panic that ended the process ("" while it runs)
    max_frames,           \* argument of FrameManager::new
    mesh_count,           \* argument of FrameManager::new
    record_size,          \* size_of::<ModelDynamicUbo>()
    min_align,            \* the device's minUniformBufferOffsetAlignment
    max_frames_in_flight, \* constants::MAX_FRAMES_IN_FLIGHT of the build
    next_handle,          \* the last handle the device handed out
    command_buffers,      \* the Vec create_command_buffers returned
    shader_code,          \* the shader files read for the pipeline being built (<<>> otherwise)
    gbuffer_pipeline,     \* FrameManager.gbuffer_pipeline (a handle, 0 before it is built)
    lighting_pipeline,    \* FrameManager.lighting_pipeline
    model_ubo_alignment,  \* FrameManager.model_ubo_alignment
    frames,               \* FrameManager.frames
    current_frame,        \* FrameManager.current_frame
    frame_count,          \* FrameManager.frame_count
    fence_signaled,       \* device state of each slot's render_fence
    pending,              \* submissions of each slot the device has not completed
    advance_calls,        \* advance_frame calls so far, counted modulo 2 * frame_count
    host_pc               \* position of the render loop that follows the ring protocol

vars == <<phase, abort_cause, max_frames, mesh_count, record_size, min_align,
          max_frames_in_flight, next_handle, command_buffers, shader_code,
          gbuffer_pipeline, lighting_pipeline, model_ubo_alignment, frames,
          current_frame, frame_count, fence_signaled, pending, advance_calls, host_pc>>

config == <<max_frames, mesh_count, record_size, min_align, max_frames_in_flight>>
built == <<next_handle, command_buffers, shader_code, gbuffer_pipeline,
           lighting_pipeline, model_ubo_alignment>>
device == <<fence_signaled, pending>>

\* ------------------------------------------------------------ helpers
RECURSIVE SumTo(_, _)
SumTo(f, n) == IF n = 0 THEN 0 ELSE f[n] + SumTo(f, n - 1)

\* The process panics: nothing of the manager is returned, nothing runs afterwards.
Panic(cause) ==
    /\ phase' = "aborted"
    /\ abort_cause' = cause

Init ==
    /\ phase = "create_command_buffers"
    /\ abort_cause = ""
    /\ max_frames \in 0..MaxFrames
    /\ mesh_count \in 0..MaxMesh
    /\ record_size \in 1..MaxRecord
    /\ min_align \in 1..MaxAlign
    /\ max_frames_in_flight \in 1..MaxFrames
    /\ next_handle = 0
    /\ command_buffers = <<>>
    /\ shader_code = <<>>
    /\ gbuffer_pipeline = 0
    /\ lighting_pipeline = 0
    /\ model_ubo_alignment = 0
    /\ frames = <<>>
    /\ current_frame = 0
    /\ frame_count = 0
    /\ fence_signaled = <<>>
    /\ pending = <<>>
    /\ advance_calls = 0
    /\ host_pc = "wait"


\* ------------------------------------------------ FrameManager::new
\* create_command_buffers: the pool hands out MAX_FRAMES_IN_FLIGHT handles,
\* whatever max_frames is (command_buffer_count(MAX_FRAMES_IN_FLIGHT)).
create_command_buffers(h) == [i \in 1..max_frames_in_flight |-> h + i]

CreateCommandBuffers ==
    /\ phase = "create_command_buffers"
    /\ \E ok \in BOOLEAN :
          IF ok
          THEN /\ command_buffers' = create_command_buffers(next_handle)
               /\ next_handle' = next_handle + max_frames_in_flight
               /\ phase' = "descriptor_manager"
               /\ UNCHANGED abort_cause
          ELSE /\ Panic("failed to allocate command buffer")
               /\ UNCHANGED <<command_buffers, next_handle>>
    /\ UNCHANGED <<config, shader_code, gbuffer_pipeline, lighting_pipeline,
                   model_ubo_alignment, frames, current_frame, frame_count, device,
                   advance_calls, host_pc>>

\* DescriptorManager::new(&device_info.logical_device, max_frames): an opaque
\* factory that succeeds or ends the process.
DescriptorManagerNew ==
    /\ phase = "descriptor_manager"
    /\ \E ok \in BOOLEAN :
          IF ok
          THEN phase' = "gbuffer_shaders" /\ UNCHANGED abort_cause
          ELSE Panic("failed to create descriptor manager")
    /\ UNCHANGED <<config, built, frames, current_frame, frame_count, device,
                   advance_calls, host_pc>>

\* A shader binary on disk: absent, or `len` bytes of which the compiler wrote
\* `module` (a whole number of 32-bit words). len < module is a short file,
\* len > module a file with bytes after the module.
ModuleSizes == {4 * k : k \in 1..(MaxShaderBytes \div 4)}
ShaderFiles ==
    {[present |-> FALSE, len |-> 0, module |-> 4]}
    \cup {[present |-> TRUE, len |-> l, module |-> m] : l \in 0..MaxShaderBytes, m \in ModuleSizes}
WellFormed(f) == f.present /\ f.len = f.module

\* read_shader_file: fs::read of the file; Err when it is missing.
read_shader_file(f) == IF f.present THEN [ok |-> TRUE, bytes |-> f.len] ELSE [ok |-> FALSE, bytes |-> 0]

\* code.align_to::<u32>(): the bytes regrouped into whole words; the bytes
\* that do not fill a word (_suffix) are dropped without a check. The Vec
\* that fs::read returns starts word-aligned, so _prefix is empty.
align_to_u32(bytes) == bytes \div 4

\* create_shader_module: the words that align_to kept go to the driver. A
\* whole module is accepted unless the device fails. Words that are no module
\* are invalid usage; the driver is taken to reject them, the case most
\* favourable to an early failure.
create_shader_module_results(f) ==
    IF 4 * align_to_u32(read_shader_file(f).bytes) = f.module
    THEN {"ok", "device_error"}
    ELSE {"rejected"}

\* PipelineInfo::new, the two read_shader_file(..).expect(..): the files read,
\* or the panic of the first one that is missing.
ReadShaders(vert, frag) ==
    IF ~read_shader_file(vert).ok THEN "Unable to read vertex file"
    ELSE IF ~read_shader_file(frag).ok THEN "Unable to read fragment shader"
    ELSE "ok"

\* PipelineInfo::new from create_shader_module on: the first failing `expect`
\* ends the process.
PipelineNewResults(vert, frag) ==
    {IF rv # "ok" THEN "Unable to create shader module"
     ELSE IF rf # "ok" THEN "Unable to create shader module"
     ELSE IF ~lay THEN "Unable to create pipeline layout"
     ELSE IF ~pipe THEN "Unable to create graphics pipeline"
     ELSE "ok" :
        rv \in create_shader_module_results(vert),
        rf \in create_shader_module_results(frag),
        lay \in BOOLEAN, pipe \in BOOLEAN}

\* The shader files of the pipeline under construction are read.
LoadShaders ==
    /\ phase \in {"gbuffer_shaders", "lighting_shaders"}
    /\ \E vert \in ShaderFiles, frag \in ShaderFiles :
          IF ReadShaders(vert, frag) = "ok"
          THEN /\ shader_code' = <<vert, frag>>
               /\ phase' = (IF phase = "gbuffer_shaders" THEN "gbuffer_pipeline" ELSE "lighting_pipeline")
               /\ UNCHANGED abort_cause
          ELSE /\ Panic(ReadShaders(vert, frag))
               /\ UNCHANGED shader_code
    /\ UNCHANGED <<config, next_handle, command_buffers, gbuffer_pipeline, lighting_pipeline,
                   model_ubo_alignment, frames, current_frame, frame_count, device,
                   advance_calls, host_pc>>

\* PipelineInfo::new_gbuffer_pipeline, after its shaders are read.
NewGbufferPipeline ==
    /\ phase = "gbuffer_pipeline"
    /\ \E r \in PipelineNewResults(shader_code[1], shader_code[2]) :
          IF r = "ok"
          THEN /\ gbuffer_pipeline' = next_handle + 1
               /\ next_handle' = next_handle + 1
               /\ shader_code' = <<>>
               /\ phase' = "lighting_shaders"
               /\ UNCHANGED abort_cause
          ELSE /\ Panic(r)
               /\ UNCHANGED <<gbuffer_pipeline, next_handle, shader_code>>
    /\ UNCHANGED <<config, command_buffers, lighting_pipeline, model_ubo_alignment,
                   frames, current_frame, frame_count, device, advance_calls, host_pc>>

\* PipelineInfo::new_lighing_pipeline, after its shaders are read.
NewLightingPipeline ==
    /\ phase = "lighting_pipeline"
    /\ \E r \in PipelineNewResults(shader_code[1], shader_code[2]) :
          IF r = "ok"
          THEN /\ lighting_pipeline' = next_handle + 1
               /\ next_handle' = next_handle + 1
               /\ shader_code' = <<>>
               /\ phase' = "get_buffer_alignment"
               /\ UNCHANGED abort_cause
          ELSE /\ Panic(r)
               /\ UNCHANGED <<lighting_pipeline, next_handle, shader_code>>
    /\ UNCHANGED <<config, command_buffers, gbuffer_pipeline, model_ubo_alignment,
                   frames, current_frame, frame_count, device, advance_calls, host_pc>>

\* utils::get_buffer_alignment::<ModelDynamicUbo>: the record size rounded up
\* to the device's minimum uniform-buffer offset alignment.
get_buffer_alignment(size, align) == ((size + align - 1) \div align) * align

GetBufferAlignment ==
    /\ phase = "get_buffer_alignment"
    /\ model_ubo_alignment' = get_buffer_alignment(record_size, min_align)
    /\ phase' = "build_frames"
    /\ UNCHANGED <<abort_cause, config, next_handle, command_buffers, shader_code,
                   gbuffer_pipeline, lighting_pipeline, frames, current_frame,
                   frame_count, device, advance_calls, host_pc>>


\* Mutant: the fence is created unsignaled.
create_sync_objects_unsignaled(h) ==
    [swapchain_semaphore |-> h + 1, render_semaphore |-> h + 2, render_fence |-> h + 3,
     signaled |-> FALSE]

\* create_sync_objects: two semaphores and a fence created with
\* FenceCreateFlags::SIGNALED.
create_sync_objects(h) ==
    [swapchain_semaphore |-> h + 1, render_semaphore |-> h + 2, render_fence |-> h + 3,
     signaled |-> TRUE]

\* AllocatedBuffer::new: a fresh buffer of `size` bytes, contents not yet written.
AllocatedBuffer(h, size, data) == [handle |-> h, size |-> size, data |-> data]

\* Mutant: the buffer sized by the record size, not by the aligned stride.
create_model_dynamic_uniform_buffer_unaligned(h, count, dynamic_alignment) ==
    AllocatedBuffer(h, record_size * count, [b \in 1..(record_size * count) |-> <<>>])

\* create_model_dynamic_uniform_buffer: dynamic_alignment * mesh_count bytes.
create_model_dynamic_uniform_buffer(h, count, dynamic_alignment) ==
    AllocatedBuffer(h, dynamic_alignment * count, [b \in 1..(dynamic_alignment * count) |-> <<>>])

\* create_camera_mvp_buffer: one CameraMvpUbo, not yet written.
create_camera_mvp_buffer(h) == AllocatedBuffer(h, 1, "unwritten")

\* create_lighting_buffer: one LightingUbo, seeded with the default light.
create_lighting_buffer(h) == AllocatedBuffer(h, 1, "default_light")

\* Mutant: the draw target reuses the albedo image instead of its own allocation.
create_images_aliased(h) ==
    [albedo_image |-> h + 1, normal_image |-> h + 2, depth_image |-> h + 3,
     shadow_map_image |-> h + 4, draw_image |-> h + 1]

\* create_images: five images, each from its own AllocatedImage::new.
create_images(h) ==
    [albedo_image |-> h + 1, normal_image |-> h + 2, depth_image |-> h + 3,
     shadow_map_image |-> h + 4, draw_image |-> h + 5]

\* The body of `for frame in 0..max_frames` up to frame_data.push: the slot
\* built for index `frame` from the handles after h.
FrameData(frame, h) ==
    LET sync == create_sync_objects(h)
        images == create_images(h + 6)
    IN [render_semaphore |-> sync.render_semaphore,
        swapchain_semaphore |-> sync.swapchain_semaphore,
        render_fence |-> sync.render_fence,
        command_buffer |-> command_buffers[frame + 1],
        camera_mvp_buffer |-> create_camera_mvp_buffer(h + 4),
        model_dynamic_buffer |->
            create_model_dynamic_uniform_buffer(h + 5, mesh_count, model_ubo_alignment),
        lighting_buffer |-> create_lighting_buffer(h + 6),
        descriptor_gbuffer_set |-> h + 16,
        descriptor_lighting_set |-> h + 17,
        albedo_image |-> images.albedo_image,
        albedo_sampler |-> h + 12,
        normal_image |-> images.normal_image,
        normal_sampler |-> h + 13,
        depth_image |-> images.depth_image,
        depth_sampler |-> h + 14,
        shadow_map_image |-> images.shadow_map_image,
        shadow_map_sampler |-> h + 15,
        draw_image |-> images.draw_image]
HandlesPerSlot == 17

\* What can end the process inside one iteration of the loop.
SlotFailures ==
    {"failed to create semaphore for swapchain",
     "failed to create semaphore for render semaphore",
     "failed to create fence for render fence",
     "failed to create a buffer, image, sampler or descriptor set"}

\* One iteration of `for frame in 0..max_frames`.
BuildFrame ==
    /\ phase = "build_frames"
    /\ Len(frames) < max_frames
    /\ LET frame == Len(frames) IN
         IF frame >= Len(command_buffers)
         THEN /\ Panic("index out of bounds: command_buffers[frame]")
              /\ UNCHANGED <<frames, next_handle, device>>
         ELSE \E r \in SlotFailures \cup {"ok"} :
                IF r = "ok"
                THEN /\ frames' = Append(frames, FrameData(frame, next_handle))
                     /\ next_handle' = next_handle + HandlesPerSlot
                     /\ fence_signaled' = Append(fence_signaled, create_sync_objects(next_handle).signaled)
                     /\ pending' = Append(pending, 0)
                     /\ UNCHANGED <<phase, abort_cause>>
                ELSE /\ Panic(r)
                     /\ UNCHANGED <<frames, next_handle, device>>
    /\ UNCHANGED <<config, command_buffers, shader_code, gbuffer_pipeline,
                   lighting_pipeline, model_ubo_alignment, current_frame, frame_count,
                   advance_calls, host_pc>>

\* `Self { frames: frame_data, current_frame: 0, frame_count: max_frames, .. }`
ReturnSelf ==
    /\ phase = "build_frames"
    /\ Len(frames) = max_frames
    /\ phase' = "live"
    /\ current_frame' = 0
    /\ frame_count' = max_frames
    /\ UNCHANGED <<abort_cause, config, built, frames, device, advance_calls, host_pc>>


\* ------------------------------------------------ runtime operations
\* Mutant: the wrap is one slot late.
advance_frame_off_by_one(current, count) == (current + 1) % (count + 1)

\* Mutant: the index is never wrapped.
advance_frame_unwrapped(current, count) == current + 1

\* advance_frame: (self.current_frame + 1) % self.frame_count
advance_frame(current, count) == (current + 1) % count

\* Mutant: advance_frame waits for the fence of the slot it rotates to.
AdvanceFrameCallWaiting ==
    /\ phase = "live"
    /\ IF frame_count = 0
       THEN /\ Panic("attempt to calculate the remainder with a divisor of zero")
            /\ UNCHANGED <<current_frame, advance_calls>>
       ELSE /\ fence_signaled[advance_frame(current_frame, frame_count) + 1]
            /\ current_frame' = advance_frame(current_frame, frame_count)
            /\ advance_calls' = (advance_calls + 1) % (2 * frame_count)
            /\ UNCHANGED <<phase, abort_cause>>
    /\ UNCHANGED <<config, built, frames, frame_count, device>>

\* The call panics when frame_count is 0 (remainder by zero).
AdvanceFrameCall ==
    /\ phase = "live"
    /\ IF frame_count = 0
       THEN /\ Panic("attempt to calculate the remainder with a divisor of zero")
            /\ UNCHANGED <<current_frame, advance_calls>>
       ELSE /\ current_frame' = advance_frame(current_frame, frame_count)
            /\ advance_calls' = (advance_calls + 1) % (2 * frame_count)
            /\ UNCHANGED <<phase, abort_cause>>
    /\ UNCHANGED <<config, built, frames, frame_count, device>>

\* advance_frame called at any time.
AdvanceFrame == AdvanceFrameCall /\ UNCHANGED host_pc

\* get_current_frame: &self.frames[self.current_frame], as a position in frames
\* (0: the index is out of bounds and the call panics).
get_current_frame == IF current_frame < Len(frames) THEN current_frame + 1 ELSE 0

\* Mutant: the mutable accessor hands out the slot after the current one.
get_mut_next_frame ==
    IF current_frame < Len(frames) THEN ((current_frame + 1) % Len(frames)) + 1 ELSE 0

\* get_mut_current_frame: self.frames.get_mut(self.current_frame).unwrap()
get_mut_current_frame == IF current_frame < Len(frames) THEN current_frame + 1 ELSE 0

GetCurrentFrame ==
    /\ phase = "live"
    /\ IF get_current_frame = 0
       THEN Panic("index out of bounds: frames[current_frame]")
       ELSE UNCHANGED <<phase, abort_cause>>
    /\ UNCHANGED <<config, built, frames, current_frame, frame_count, device,
                   advance_calls, host_pc>>

\* AllocatedBuffer::update_buffer(&[T]): the typed slice is copied to the start
\* of the buffer; element i of a slice lies at byte i * size_of::<T>().
SliceBytes(n, size) == [b \in 1..(n * size) |-> <<(b - 1) \div size, (b - 1) % size>>]
update_buffer(buffer, bytes) ==
    [buffer EXCEPT !.data = [b \in 1..buffer.size |-> IF b <= Len(bytes) THEN bytes[b] ELSE @[b]]]

\* FrameData::update_camera_mvp_buffer(mvp) on the slot at position i.
update_camera_mvp_buffer(slot, mvp) == [slot EXCEPT !.camera_mvp_buffer.data = mvp]

\* FrameData::update_lighting_buffer(mvp) on the slot at position i.
update_lighting_buffer(slot, mvp) == [slot EXCEPT !.lighting_buffer.data = mvp]

\* FrameData::update_model_dynamic_buffer(mvp) with n records.
update_model_dynamic_buffer(slot, n) ==
    [slot EXCEPT !.model_dynamic_buffer = update_buffer(@, SliceBytes(n, record_size))]

\* Values a caller writes into the one-record buffers.
UboValues == {"ubo_a"}

\* get_mut_current_frame().update_camera_mvp_buffer(mvp)
UpdateCameraMvpBuffer ==
    /\ phase = "live"
    /\ IF get_mut_current_frame = 0
       THEN Panic("called Option::unwrap() on a None value") /\ UNCHANGED frames
       ELSE /\ \E mvp \in UboValues :
                 frames' = [frames EXCEPT ![get_mut_current_frame] = update_camera_mvp_buffer(@, mvp)]
            /\ UNCHANGED <<phase, abort_cause>>
    /\ UNCHANGED <<config, built, current_frame, frame_count, device, advance_calls, host_pc>>

\* get_mut_current_frame().update_lighting_buffer(mvp)
UpdateLightingBuffer ==
    /\ phase = "live"
    /\ IF get_mut_current_frame = 0
       THEN Panic("called Option::unwrap() on a None value") /\ UNCHANGED frames
       ELSE /\ \E mvp \in UboValues :
                 frames' = [frames EXCEPT ![get_mut_current_frame] = update_lighting_buffer(@, mvp)]
            /\ UNCHANGED <<phase, abort_cause>>
    /\ UNCHANGED <<config, built, current_frame, frame_count, device, advance_calls, host_pc>>

\* get_mut_current_frame().update_model_dynamic_buffer(mvp), mvp of mesh_count
\* records or one more. The count is not checked: a slice longer
\* than the buffer writes past the mapping, which either kills the process or
\* goes unnoticed (the bytes inside the buffer are overwritten all the same).
UpdateModelDynamicBuffer ==
    /\ phase = "live"
    /\ IF get_mut_current_frame = 0
       THEN Panic("called Option::unwrap() on a None value") /\ UNCHANGED frames
       ELSE \E n \in {mesh_count, mesh_count + 1} :
              LET slot == frames[get_mut_current_frame] IN
              \/ /\ frames' = [frames EXCEPT ![get_mut_current_frame] = update_model_dynamic_buffer(@, n)]
                 /\ UNCHANGED <<phase, abort_cause>>
              \/ /\ n * record_size > slot.model_dynamic_buffer.size
                 /\ Panic("write past the end of the mapped buffer")
                 /\ UNCHANGED frames
    /\ UNCHANGED <<config, built, current_frame, frame_count, device, advance_calls, host_pc>>


\* ------------------------------------------------ submission and device
\* The render loop resets the current slot's fence and submits the slot's
\* command buffer with it. A command buffer that is still pending must not be
\* submitted again, so the call is made only when the slot has nothing pending.
Submit ==
    /\ phase = "live"
    /\ get_current_frame # 0
    /\ pending[get_current_frame] = 0
    /\ fence_signaled' = [fence_signaled EXCEPT ![get_current_frame] = FALSE]
    /\ pending' = [pending EXCEPT ![get_current_frame] = 1]
    /\ UNCHANGED <<phase, abort_cause, config, built, frames, current_frame, frame_count,
                   advance_calls, host_pc>>

\* The device finishes one submission of slot i and signals the slot's fence.
DeviceComplete ==
    /\ phase = "live"
    /\ \E i \in 1..Len(frames) :
         /\ pending[i] > 0
         /\ pending' = [pending EXCEPT ![i] = @ - 1]
         /\ fence_signaled' = [fence_signaled EXCEPT ![i] = TRUE]
    /\ UNCHANGED <<phase, abort_cause, config, built, frames, current_frame, frame_count,
                   advance_calls, host_pc>>

\* ------------------------------------------------ the ring protocol
\* Mutant: the host does not wait.
FenceWaitSkipped(i) == TRUE

\* wait_for_fences on a slot's render_fence returns once the fence is signaled.
FenceWaitReturns(i) == fence_signaled[i]

\* wait on the current slot's fence
RingWait ==
    /\ phase = "live"
    /\ host_pc = "wait"
    /\ IF get_current_frame = 0
       THEN /\ Panic("index out of bounds: frames[current_frame]")
            /\ UNCHANGED host_pc
       ELSE /\ FenceWaitReturns(get_current_frame)
            /\ host_pc' = "update"
            /\ UNCHANGED <<phase, abort_cause>>
    /\ UNCHANGED <<config, built, frames, current_frame, frame_count, device, advance_calls>>

\* rewrite the slot: camera transform and one record per mesh
RingUpdate ==
    /\ phase = "live"
    /\ host_pc = "update"
    /\ get_mut_current_frame # 0
    /\ \E mvp \in UboValues :
         frames' = [frames EXCEPT ![get_mut_current_frame] =
                       update_model_dynamic_buffer(update_camera_mvp_buffer(@, mvp), mesh_count)]
    /\ host_pc' = "submit"
    /\ UNCHANGED <<phase, abort_cause, config, built, current_frame, frame_count, device,
                   advance_calls>>

\* reset the slot's fence and submit the slot
RingSubmit ==
    /\ phase = "live"
    /\ host_pc = "submit"
    /\ get_current_frame # 0
    /\ pending[get_current_frame] < MaxPending
    /\ fence_signaled' = [fence_signaled EXCEPT ![get_current_frame] = FALSE]
    /\ pending' = [pending EXCEPT ![get_current_frame] = @ + 1]
    /\ host_pc' = "advance"
    /\ UNCHANGED <<phase, abort_cause, config, built, frames, current_frame, frame_count,
                   advance_calls>>

RingAdvance ==
    /\ host_pc = "advance"
    /\ AdvanceFrameCall
    /\ host_pc' = "wait"

\* ------------------------------------------------ specifications
New ==
    \/ CreateCommandBuffers
    \/ DescriptorManagerNew
    \/ LoadShaders
    \/ NewGbufferPipeline
    \/ NewLightingPipeline
    \/ GetBufferAlignment
    \/ BuildFrame
    \/ ReturnSelf

\* The manager under any sequence of calls, with the device running beside it.
Next ==
    \/ New
    \/ AdvanceFrame
    \/ GetCurrentFrame
    \/ UpdateCameraMvpBuffer
    \/ UpdateLightingBuffer
    \/ UpdateModelDynamicBuffer
    \/ Submit
    \/ DeviceComplete

Spec == Init /\ [][Next]_vars

\* The manager driven by a render loop that follows the ring protocol.
NextRing ==
    \/ New
    \/ RingWait
    \/ RingUpdate
    \/ RingSubmit
    \/ RingAdvance
    \/ DeviceComplete

SpecRing == Init /\ [][NextRing]_vars

\* The host thread: one sequential loop of wait, update, submit, advance_frame.
HostLoop ==
    \/ RingWait
    \/ RingUpdate
    \/ RingSubmit
    \/ RingAdvance

\* The ring with a host thread that keeps running its loop and a device that
\* eventually completes a submission it holds.
SpecRingFair ==
    /\ Init
    /\ [][NextRing]_vars
    /\ WF_vars(HostLoop)
    /\ WF_vars(DeviceComplete)


\* ------------------------------------------------ derived state
\* Submitted slots whose work the device has not completed (frames in flight).
InFlight == SumTo(pending, Len(pending))

\* The buffer and image handles slot i owns: 3 buffers and 5 images.
SlotResources(i) ==
    {frames[i].camera_mvp_buffer.handle, frames[i].model_dynamic_buffer.handle,
     frames[i].lighting_buffer.handle, frames[i].albedo_image, frames[i].normal_image,
     frames[i].depth_image, frames[i].shadow_map_image, frames[i].draw_image}
ResourceHandles == UNION {SlotResources(i) : i \in 1..Len(frames)}

\* Every handle a slot holds, buffer contents left out.
SlotHandles(i) ==
    <<frames[i].render_semaphore, frames[i].swapchain_semaphore, frames[i].render_fence,
      frames[i].command_buffer, frames[i].descriptor_gbuffer_set,
      frames[i].descriptor_lighting_set, frames[i].albedo_sampler, frames[i].normal_sampler,
      frames[i].depth_sampler, frames[i].shadow_map_sampler,
      frames[i].camera_mvp_buffer.handle, frames[i].model_dynamic_buffer.handle,
      frames[i].lighting_buffer.handle, frames[i].albedo_image, frames[i].normal_image,
      frames[i].depth_image, frames[i].shadow_map_image, frames[i].draw_image>>
AllSlotHandles == [i \in 1..Len(frames) |-> SlotHandles(i)]

\* ------------------------------------------------ C1
\* C1: in a manager with frame_count >= 1, after k calls of advance_frame
\* current_frame is k mod frame_count (k is counted modulo 2 * frame_count,
\* which leaves k mod frame_count exact).
C1_AdvanceCycles ==
    (phase = "live" /\ frame_count >= 1) => current_frame = advance_calls % frame_count

\* The ring of two slots has wrapped once and stands at slot 1 again (3rd call).
C1_Witness ==
    phase = "live" /\ frame_count = 2 /\ advance_calls = 3 /\ current_frame = 1

\* ------------------------------------------------ C2
\* C2 as stated: in every state of any constructed manager current_frame is in
\* [0, frame_count), both accessors find a slot and no call has failed on its index.
C2_IndexAlwaysInRange ==
    /\ phase = "live" =>
          /\ 0 <= current_frame /\ current_frame < frame_count
          /\ get_current_frame # 0 /\ get_mut_current_frame # 0
    /\ abort_cause \notin {"index out of bounds: frames[current_frame]",
                           "called Option::unwrap() on a None value"}

\* C2 amended: the same for every manager constructed with max_frames >= 1.
C2_IndexInRangeNonEmpty ==
    max_frames >= 1 =>
       /\ phase = "live" =>
             /\ 0 <= current_frame /\ current_frame < frame_count
             /\ get_current_frame # 0 /\ get_mut_current_frame # 0
       /\ abort_cause \notin {"index out of bounds: frames[current_frame]",
                              "called Option::unwrap() on a None value"}

\* The last slot of a two-slot ring is current, written to and in flight.
C2_Witness ==
    /\ phase = "live" /\ frame_count = 2 /\ current_frame = 1
    /\ frames[2].camera_mvp_buffer.data # "unwritten"
    /\ pending[2] = 1

\* ------------------------------------------------ C3
\* C3: under the ring protocol the host rewrites a slot (it stands at "update",
\* about to write through get_mut_current_frame) only while the device runs
\* no submission of that slot.
C3_NoWriteWhileInFlight ==
    (phase = "live" /\ host_pc = "update") => pending[get_mut_current_frame] = 0

\* The host rewrites a slot it has written and submitted before, while the
\* device still runs another slot.
C3_Witness ==
    /\ phase = "live" /\ host_pc = "update" /\ frame_count >= 2
    /\ frames[get_mut_current_frame].camera_mvp_buffer.data # "unwritten"
    /\ \E i \in 1..Len(frames) : pending[i] > 0

\* ------------------------------------------------ C4
\* C4 as stated: under the ring protocol at most frame_count - 1 frames are in
\* flight in every reachable state.
C4_InFlightBelowCount ==
    (phase = "live" /\ frame_count >= 1) => InFlight <= frame_count - 1

\* C4 amended: at most frame_count frames are in flight in every state, and at
\* most frame_count - 1 while the host, past its wait, prepares or submits a slot.
C4_InFlightBound ==
    (phase = "live" /\ frame_count >= 1) =>
       /\ InFlight <= frame_count
       /\ host_pc \in {"update", "submit"} => InFlight <= frame_count - 1

\* Every slot of a two-slot ring is in flight at once.
C4_Witness ==
    phase = "live" /\ frame_count = 2 /\ InFlight = 2 /\ host_pc = "wait"

\* ------------------------------------------------ C5
\* C5: a constructed manager holds max_frames slots with 8 * max_frames
\* distinct buffer and image handles, and no later step changes the number of
\* slots or a handle a slot holds.
C5_SlotsFixedAndDistinct ==
    /\ [](phase = "live" =>
             /\ Len(frames) = max_frames
             /\ \A i \in 1..Len(frames) : Cardinality(SlotResources(i)) = 8
             /\ Cardinality(ResourceHandles) = 8 * max_frames)
    /\ [][(phase = "live" /\ frames' # frames) => AllSlotHandles' = AllSlotHandles]_vars

\* Two slots with 16 distinct handles, after calls of advance_frame and updates.
C5_Witness ==
    /\ phase = "live" /\ max_frames = 2 /\ Cardinality(ResourceHandles) = 16
    /\ advance_calls = 1
    /\ frames[1].camera_mvp_buffer.data # "unwritten"
    /\ frames[2].lighting_buffer.data # "default_light"

\* ------------------------------------------------ C6
\* C6: the allocation made for max_frames slots holds a command handle for
\* every slot index 0..max_frames-1, slot i is given the i-th handle, and
\* construction never fails for want of one.
C6_CommandBufferPerSlot ==
    /\ command_buffers # <<>> => \A i \in 1..max_frames : i \in DOMAIN command_buffers
    /\ \A i \in 1..Len(frames) : frames[i].command_buffer = command_buffers[i]
    /\ abort_cause # "index out of bounds: command_buffers[frame]"

\* ------------------------------------------------ C7
\* C7: the stride is the least multiple of the alignment that is >= the record
\* size, equals the record size exactly when that is a multiple already, and
\* every slot's per-instance buffer has stride * mesh_count bytes.
C7_StrideLeastMultiple ==
    phase \in {"build_frames", "live"} =>
       /\ model_ubo_alignment % min_align = 0
       /\ model_ubo_alignment >= record_size
       /\ model_ubo_alignment - min_align < record_size
       /\ (model_ubo_alignment = record_size) <=> (record_size % min_align = 0)
       /\ \A i \in 1..Len(frames) :
             /\ frames[i].model_dynamic_buffer.size = model_ubo_alignment * mesh_count
             /\ Len(frames[i].model_dynamic_buffer.data) = model_ubo_alignment * mesh_count

\* A manager whose stride is larger than the record, with two-record buffers.
C7_Witness ==
    /\ phase = "live" /\ model_ubo_alignment > record_size /\ mesh_count = 2
    /\ Len(frames) = 2

\* ------------------------------------------------ C8
\* Slot i's per-instance buffer holds exactly mesh_count records from an update.
WrittenExactly(i) ==
    LET buf == frames[i].model_dynamic_buffer IN
    /\ mesh_count >= 1
    /\ buf.data[1] # <<>>
    /\ mesh_count * record_size < buf.size => buf.data[mesh_count * record_size + 1] = <<>>

\* C8: after an update with exactly mesh_count records, byte j of record r is
\* read back at offset r * stride + j.
C8_RecordsAtStride ==
    phase = "live" =>
       \A i \in 1..Len(frames) :
          WrittenExactly(i) =>
             \A r \in 0..(mesh_count - 1), j \in 0..(record_size - 1) :
                frames[i].model_dynamic_buffer.data[r * model_ubo_alignment + j + 1] = <<r, j>>

\* ------------------------------------------------ C9
\* What advance_frame is claimed to leave alone.
RestOfManager ==
    <<phase, abort_cause, frame_count, frames, fence_signaled, pending, gbuffer_pipeline,
      lighting_pipeline, model_ubo_alignment, command_buffers>>

\* C9 as stated: in every state of a constructed manager advance_frame can be
\* called and returns, and a call changes current_frame and nothing else.
C9_PureRotationAlways ==
    /\ [](phase = "live" => ENABLED (AdvanceFrame /\ phase' = "live"))
    /\ [][advance_calls' # advance_calls =>
             /\ current_frame' = (current_frame + 1) % frame_count
             /\ UNCHANGED RestOfManager]_vars

\* C9 amended: the same in every state of a manager with frame_count >= 1.
C9_PureRotation ==
    /\ []((phase = "live" /\ frame_count >= 1) => ENABLED (AdvanceFrame /\ phase' = "live"))
    /\ [][advance_calls' # advance_calls =>
             /\ current_frame' = (current_frame + 1) % frame_count
             /\ UNCHANGED RestOfManager]_vars

\* advance_frame has rotated onto a slot that is still in flight, with
\* written buffers in the ring.
C9_Witness ==
    /\ phase = "live" /\ frame_count = 2 /\ advance_calls = 2 /\ current_frame = 0
    /\ pending[1] = 1 /\ ~fence_signaled[1]
    /\ frames[1].camera_mvp_buffer.data # "unwritten"

\* ------------------------------------------------ C10
\* C10: a failing sub-step ends the process there (a shader file that is not a
\* whole module included), a returned manager has all max_frames slots, and an
\* ended process takes no further step.
C10_AllOrAbort ==
    /\ [](phase = "live" => Len(frames) = max_frames)
    /\ [][phase = "aborted" => phase' = "aborted"]_vars
    /\ [][(shader_code # <<>> /\ \E k \in 1..2 : ~WellFormed(shader_code[k]))
             => phase' = "aborted"]_vars

\* ------------------------------------------------ C11
\* C11: a slot's fence is unsignaled only while a submission of the slot is
\* pending, so a wait on a slot never submitted returns; with a running host
\* loop and a device that completes its submissions, for frame_count >= 1 the
\* wait on the current slot always returns and every slot is submitted again
\* and again.
C11_RingNeverBlocks ==
    /\ [](phase = "live" =>
             \A i \in 1..Len(frames) : pending[i] = 0 => fence_signaled[i])
    /\ [][(phase = "build_frames" /\ phase' = "live") =>
             \A i \in 1..Len(frames') : pending'[i] = 0 /\ fence_signaled'[i]]_vars
    /\ [](phase = "live" /\ frame_count >= 1 /\ host_pc = "wait" => <>(host_pc = "update"))
    /\ \A i \in 1..MaxFrames :
         [](phase = "live" /\ i <= frame_count =>
               <>(host_pc = "advance" /\ current_frame = i - 1 /\ pending[i] = 1))

\* The second slot of a two-slot ring has just been submitted for the second
\* time.
C11_Witness ==
    /\ phase = "live" /\ frame_count = 2 /\ host_pc = "advance"
    /\ current_frame = 1 /\ advance_calls = 3 /\ pending[2] = 1

====
